---- MODULE Spec2Model ----
(***************************************************************************)
(* Model of the concurrent fetch pipeline of the scraper (the program in   *)
(* src/unnamed/part_000): the Task Source goroutine, the scrapeWorker       *)
(* goroutines, the two file sinks, the signal goroutine and main.           *)
(*                                                                          *)
(* Channels are modelled by what Go gives them: a buffered channel is a     *)
(* FIFO sequence with a capacity (a send blocks when it is full, a receive  *)
(* blocks when it is empty and open), the unbuffered results channel is a   *)
(* rendezvous of the sending Worker and the receiving sink, and the         *)
(* inflight channel of struct{} is a counter of held tokens.                *)
(***************************************************************************)
EXTENDS Integers, Sequences, FiniteSets, TLC

\* ---------------------------------------------------------------- bounds
\* Number of Worker goroutines, and with it the capacities of tasks,
\* skipped and inflight (the program runs 10; the model runs fewer).
WORKERS == 2
\* Fresh offsets the Task Source may issue in one run.
MaxFresh == 2
\* Fetches the upstream may fail in one run.
MaxFail == 2

\* ------------------------------------------------------------- constants
STEP_SIZE == 100

\* The configured pools (--proxies, useragents.txt).  --proxies is optional:
\* without it the slice proxies stays nil.
ProxyPools == {{}, {"p1"}}
userAgents == {"ua1"}

\* The caller-supplied base offset (--start-id, parsed base 36).
StartNums == {36}

Workers == 1..WORKERS
TasksCap == WORKERS
SkippedCap == WORKERS * 2
InflightCap == WORKERS

NoId == 0 - 1

\* What one bulk-lookup call can meet upstream.
Outcomes == {"transport", "s429", "s403", "s500", "invalid", "ok"}

VARIABLES
    startNum,      \* startNum
    proxies,       \* proxies, the pool parsed from --proxies
    logFetches,    \* whether this run keeps lastFetch (fixed for the run)
    i,             \* i of main, used by the Task Source goroutine only
    shutdown,      \* the shutdown flag
    tasks,         \* buffered channel tasks
    tasksClosed,
    skipped,       \* buffered channel skipped
    skippedClosed,
    resultsClosed, \* the unbuffered channel results is closed
    inflight,      \* number of tokens held in channel inflight
    inflightClosed,
    tsPc, nextId,  \* Task Source goroutine: position and nextId
    wPc, postID, consecutiveNonValidResponse, proxy, userAgent, \* per Worker
    wgCount,       \* sync.WaitGroup counter
    mainPc,        \* main, from wg.Wait() on
    rsPc, body, first, resultsFile,   \* writeResultsToFile
    ssPc, id, skippedFile,            \* writeSkippedToFile
    \* history of the run (not program state)
    nFail,         \* FailureRecords emitted (skipped <- postID executed)
    nOk,           \* fetches that returned a body
    redelivered,   \* offsets the Task Source received from skipped
    freshIssued,   \* the fresh offsets, in the order issued
    payloads,      \* payloads[o]: bodies produced for offset o
    emitted,       \* emitted[w]: what the attempt w is making has emitted so far
    lastFetch,     \* lastFetch[w]: what the failed fetch w is handling met, and
                   \* whether w rerolled on it (kept until w sends on skipped)
    arrived        \* the bodies the Results sink has received, in order

vars == <<startNum, proxies, logFetches, i, shutdown, tasks, tasksClosed, skipped, skippedClosed,
          resultsClosed, inflight, inflightClosed, tsPc, nextId,
          wPc, postID, consecutiveNonValidResponse, proxy, userAgent,
          wgCount, mainPc, rsPc, body, first, resultsFile,
          ssPc, id, skippedFile,
          nFail, nOk, redelivered, freshIssued, payloads, emitted,
          lastFetch, arrived>>

cfgVars == <<startNum, proxies, logFetches>>
chanVars == <<tasks, tasksClosed, skipped, skippedClosed, resultsClosed,
              inflight, inflightClosed>>
tsVars == <<tsPc, nextId, i>>
workerVars == <<wPc, postID, consecutiveNonValidResponse, proxy, userAgent, wgCount>>
rsVars == <<rsPc, body, first, resultsFile>>
ssVars == <<ssPc, id, skippedFile>>
histVars == <<nFail, nOk, redelivered, freshIssued, payloads, emitted>>

Offsets == {b + k * STEP_SIZE : b \in StartNums, k \in 0..(MaxFresh + 1)}

\* The process is alive until main returns or a goroutine panics.
Running == mainPc \notin {"exited", "crashed"}

NoFetch == [outcome |-> "none", rerolled |-> FALSE]

\* The state when main has started its goroutines, for a given proxy pool,
\* the run keeping lastFetch or not.
InitWith(pool, log) ==
    /\ proxies = pool
    /\ logFetches = log
    /\ lastFetch = [w \in Workers |-> NoFetch]
    /\ arrived = <<>>
    /\ startNum \in StartNums
    /\ i = 0
    /\ shutdown = FALSE
    /\ tasks = <<>> /\ tasksClosed = FALSE
    /\ skipped = <<>> /\ skippedClosed = FALSE
    /\ resultsClosed = FALSE
    /\ inflight = 0 /\ inflightClosed = FALSE
    /\ tsPc = "check" /\ nextId = NoId
    /\ wPc = [w \in Workers |-> "start"]
    /\ postID = [w \in Workers |-> NoId]
    /\ consecutiveNonValidResponse = [w \in Workers |-> 0]
    /\ proxy = [w \in Workers |-> ""]
    /\ userAgent = [w \in Workers |-> ""]
    /\ wgCount = WORKERS
    /\ mainPc = "wait"
    /\ rsPc = "start" /\ body = NoId /\ first = TRUE /\ resultsFile = <<>>
    /\ ssPc = "recv" /\ id = NoId /\ skippedFile = <<>>
    /\ nFail = 0 /\ nOk = 0 /\ redelivered = 0
    /\ freshIssued = <<>>
    /\ payloads = [o \in Offsets |-> 0]
    /\ emitted = [w \in Workers |-> "idle"]

\* A run with --proxies given.
Init == InitWith({"p1"}, FALSE)

\* ------------------------------------------------------------ Task Source
\* if shutdown { close(tasks); return }.  The flag is written by the signal
\* goroutine and read here with no synchronisation: a read made after the
\* write may still return the initial false.  A read of false starts an
\* iteration; the model follows a run for as long as a fresh offset is
\* still within MaxFresh.
TSCheckShutdown ==
    /\ Running /\ tsPc = "check"
    /\ shutdown
    /\ tasksClosed' = TRUE
    /\ tsPc' = "done"
    /\ UNCHANGED <<cfgVars, lastFetch, arrived,
                   i, nextId, shutdown, tasks, skipped, skippedClosed,
                   resultsClosed, inflight, inflightClosed, workerVars, mainPc,
                   rsVars, ssVars, histVars>>

TSCheckContinue ==
    /\ Running /\ tsPc = "check"
    /\ i < MaxFresh * STEP_SIZE
    /\ tsPc' = "acquire"
    /\ UNCHANGED <<cfgVars, lastFetch, arrived,
                   i, nextId, shutdown, chanVars, workerVars, mainPc,
                   rsVars, ssVars, histVars>>

\* Mutant of TSAcquire: a send that does not wait for a free slot.
TSAcquireNoWait ==
    /\ Running /\ tsPc = "acquire"
    /\ inflight' = IF inflight < InflightCap THEN inflight + 1 ELSE inflight
    /\ tsPc' = "decide"
    /\ UNCHANGED <<cfgVars, lastFetch, arrived,
                   i, nextId, shutdown, tasks, tasksClosed, skipped,
                   skippedClosed, resultsClosed, inflightClosed, workerVars,
                   mainPc, rsVars, ssVars, histVars>>

\* inflight <- struct{}{}
TSAcquire ==
    /\ Running /\ tsPc = "acquire"
    /\ inflight < InflightCap
    /\ inflight' = inflight + 1
    /\ tsPc' = "decide"
    /\ UNCHANGED <<cfgVars, lastFetch, arrived,
                   i, nextId, shutdown, tasks, tasksClosed, skipped,
                   skippedClosed, resultsClosed, inflightClosed, workerVars,
                   mainPc, rsVars, ssVars, histVars>>

\* if len(skipped) > 0 { ... } else { i += STEP_SIZE; nextId = startNum + i }
TSDecide ==
    /\ Running /\ tsPc = "decide"
    /\ IF Len(skipped) > 0
       THEN /\ tsPc' = "recv"
            /\ UNCHANGED <<i, nextId, freshIssued>>
       ELSE /\ i' = i + STEP_SIZE
            /\ nextId' = startNum + i'
            /\ freshIssued' = Append(freshIssued, nextId')
            /\ tsPc' = "send"
    /\ UNCHANGED <<cfgVars, lastFetch, arrived,
                   shutdown, chanVars, workerVars, mainPc, rsVars,
                   ssVars, nFail, nOk, redelivered, payloads, emitted>>

\* Mutant of TSRecvSkipped: the head of skipped is read and left in place.
TSRecvSkippedPeek ==
    /\ Running /\ tsPc = "recv"
    /\ Len(skipped) > 0
    /\ nextId' = Head(skipped)
    /\ redelivered' = redelivered + 1
    /\ tsPc' = "send"
    /\ UNCHANGED <<cfgVars, lastFetch, arrived,
                   i, shutdown, chanVars, workerVars, mainPc,
                   rsVars, ssVars, nFail, nOk, freshIssued,
                   payloads, emitted>>

\* nextId = <-skipped
TSRecvSkipped ==
    /\ Running /\ tsPc = "recv"
    /\ Len(skipped) > 0
    /\ nextId' = Head(skipped)
    /\ skipped' = Tail(skipped)
    /\ redelivered' = redelivered + 1
    /\ tsPc' = "send"
    /\ UNCHANGED <<cfgVars, lastFetch, arrived,
                   i, shutdown, tasks, tasksClosed, skippedClosed,
                   resultsClosed, inflight, inflightClosed, workerVars, mainPc,
                   rsVars, ssVars, nFail, nOk, freshIssued,
                   payloads, emitted>>

\* tasks <- nextId
TSSend ==
    /\ Running /\ tsPc = "send"
    /\ Len(tasks) < TasksCap
    /\ tasks' = Append(tasks, nextId)
    /\ nextId' = NoId
    /\ tsPc' = "check"
    /\ UNCHANGED <<cfgVars, lastFetch, arrived,
                   i, shutdown, tasksClosed, skipped, skippedClosed,
                   resultsClosed, inflight, inflightClosed, workerVars, mainPc,
                   rsVars, ssVars, histVars>>

TaskSource ==
    \/ TSCheckShutdown \/ TSCheckContinue \/ TSAcquire
    \/ TSDecide \/ TSRecvSkipped \/ TSSend

\* ------------------------------------------------------ signal goroutine
\* <-sigCh; shutdown = true
Signal ==
    /\ Running
    /\ ~shutdown
    /\ shutdown' = TRUE
    /\ UNCHANGED <<cfgVars, lastFetch, arrived,
                   chanVars, tsVars, workerVars, mainPc, rsVars,
                   ssVars, histVars>>

\* ---------------------------------------------------------------- Worker
\* Worker.SetRandomIdentity: a draw from each pool.
SetRandomIdentity(w, p, u) ==
    /\ proxy' = [proxy EXCEPT ![w] = p]
    /\ userAgent' = [userAgent EXCEPT ![w] = u]

\* worker := Worker{}; worker.SetRandomIdentity(proxies, userAgents)
WStart(w) ==
    /\ Running /\ wPc[w] = "start"
    /\ \E p \in proxies, u \in userAgents : SetRandomIdentity(w, p, u)
    /\ wPc' = [wPc EXCEPT ![w] = "recv"]
    /\ UNCHANGED <<cfgVars, lastFetch, arrived,
                   shutdown, chanVars, tsVars, postID,
                   consecutiveNonValidResponse, wgCount, mainPc, rsVars, ssVars,
                   histVars>>

\* worker.SetRandomIdentity(proxies, userAgents) with no proxy configured:
\* rand.Intn(len(proxies)) panics on the argument 0, and a panic in a
\* goroutine ends the process.  (On a reroll the pool is the one the Worker
\* started with, so the panic is met at the start or never.)
WStartPanic(w) ==
    /\ Running /\ wPc[w] = "start"
    /\ proxies = {}
    /\ mainPc' = "crashed"
    /\ UNCHANGED <<cfgVars, lastFetch, arrived,
                   shutdown, chanVars, tsVars, workerVars, rsVars, ssVars,
                   histVars>>

\* for postID := range tasks: the next offset
WRecv(w) ==
    /\ Running /\ wPc[w] = "recv"
    /\ Len(tasks) > 0
    /\ postID' = [postID EXCEPT ![w] = Head(tasks)]
    /\ tasks' = Tail(tasks)
    /\ wPc' = [wPc EXCEPT ![w] = "request"]
    /\ emitted' = [emitted EXCEPT ![w] = "none"]
    /\ UNCHANGED <<cfgVars, lastFetch, arrived,
                   shutdown, tasksClosed, skipped, skippedClosed,
                   resultsClosed, inflight, inflightClosed, tsVars,
                   consecutiveNonValidResponse, proxy, userAgent, wgCount,
                   mainPc, rsVars, ssVars, nFail, nOk, redelivered, freshIssued,
                   payloads>>

\* Mutant of WDone: the Worker leaves as soon as it finds tasks empty.
WDoneOnEmpty(w) ==
    /\ Running /\ wPc[w] = "recv"
    /\ Len(tasks) = 0
    /\ wPc' = [wPc EXCEPT ![w] = "done"]
    /\ wgCount' = wgCount - 1
    /\ UNCHANGED <<cfgVars, lastFetch, arrived,
                   shutdown, chanVars, tsVars, postID,
                   consecutiveNonValidResponse, proxy, userAgent, mainPc,
                   rsVars, ssVars, histVars>>

\* for postID := range tasks: the channel is closed and drained; wg.Done()
WDone(w) ==
    /\ Running /\ wPc[w] = "recv"
    /\ Len(tasks) = 0 /\ tasksClosed
    /\ wPc' = [wPc EXCEPT ![w] = "done"]
    /\ wgCount' = wgCount - 1
    /\ UNCHANGED <<cfgVars, lastFetch, arrived,
                   shutdown, chanVars, tsVars, postID,
                   consecutiveNonValidResponse, proxy, userAgent, mainPc,
                   rsVars, ssVars, histVars>>

\* Worker.DoRequest: the error it returns for what the call met upstream.
DoRequest(outcome) ==
    CASE outcome = "transport" -> "fetch_error"
      [] outcome \in {"s429", "s403", "s500"} -> "ERR_NON_200_RESPONSE"
      [] outcome = "invalid" -> "invalid_json"
      [] OTHER -> "nil"

\* Fetches that have returned an error so far.
FetchFailures == nFail + Cardinality({w \in Workers : wPc[w] = "skip_send"})

\* lastFetch once Worker w has handled a fetch that met outcome.
Logged(w, outcome, rerolled) ==
    IF logFetches
    THEN [lastFetch EXCEPT ![w] = [outcome |-> outcome, rerolled |-> rerolled]]
    ELSE lastFetch

\* response, err := worker.DoRequest(apiURL) and the branch on err up to the
\* next channel operation.
WRequest(w) ==
    /\ Running /\ wPc[w] = "request"
    /\ \E outcome \in Outcomes :
         LET err == DoRequest(outcome) IN
         /\ err # "nil" => FetchFailures < MaxFail
         /\ IF err # "nil"
            THEN /\ IF err = "ERR_NON_200_RESPONSE" /\ consecutiveNonValidResponse[w] < 1
                    THEN /\ consecutiveNonValidResponse' =
                              [consecutiveNonValidResponse EXCEPT ![w] = @ + 1]
                         /\ lastFetch' = Logged(w, outcome, FALSE)
                         /\ UNCHANGED <<proxy, userAgent>>
                    ELSE /\ \E p \in proxies, u \in userAgents :
                              SetRandomIdentity(w, p, u)
                         /\ lastFetch' = Logged(w, outcome, TRUE)
                         /\ UNCHANGED consecutiveNonValidResponse
                 /\ wPc' = [wPc EXCEPT ![w] = "skip_send"]
                 /\ UNCHANGED <<nOk, payloads>>
            ELSE /\ consecutiveNonValidResponse' =
                      [consecutiveNonValidResponse EXCEPT ![w] = 0]
                 /\ nOk' = nOk + 1
                 /\ payloads' = [payloads EXCEPT ![postID[w]] = @ + 1]
                 /\ wPc' = [wPc EXCEPT ![w] = "release_ok"]
                 /\ UNCHANGED <<proxy, userAgent, lastFetch>>
    /\ UNCHANGED <<cfgVars, arrived,
                   shutdown, chanVars, tsVars, postID, wgCount, mainPc,
                   rsVars, ssVars, nFail, redelivered, freshIssued, emitted>>

Emit(e, what) == IF e = "none" THEN what ELSE "both"

\* Mutant of WSkip: the failure path goes on without the send on skipped.
WSkipDropped(w) ==
    /\ Running /\ wPc[w] = "skip_send"
    /\ lastFetch' = [lastFetch EXCEPT ![w] = NoFetch]
    /\ wPc' = [wPc EXCEPT ![w] = "skip_release"]
    /\ UNCHANGED <<cfgVars, arrived,
                   shutdown, chanVars, tsVars, postID,
                   consecutiveNonValidResponse, proxy, userAgent, wgCount,
                   mainPc, rsVars, ssVars, histVars>>

\* skipped <- postID
WSkip(w) ==
    /\ Running /\ wPc[w] = "skip_send"
    /\ Len(skipped) < SkippedCap
    /\ skipped' = Append(skipped, postID[w])
    /\ nFail' = nFail + 1
    /\ emitted' = [emitted EXCEPT ![w] = Emit(@, "failure")]
    /\ lastFetch' = [lastFetch EXCEPT ![w] = NoFetch]
    /\ wPc' = [wPc EXCEPT ![w] = "skip_release"]
    /\ UNCHANGED <<cfgVars, arrived,
                   shutdown, tasks, tasksClosed, skippedClosed,
                   resultsClosed, inflight, inflightClosed, tsVars, postID,
                   consecutiveNonValidResponse, proxy, userAgent, wgCount,
                   mainPc, rsVars, ssVars, nOk, redelivered, freshIssued,
                   payloads>>

\* Mutant of WReleaseFail: the failure path continues without <-inflight.
WReleaseFailLeak(w) ==
    /\ Running /\ wPc[w] = "skip_release"
    /\ postID' = [postID EXCEPT ![w] = NoId]
    /\ emitted' = [emitted EXCEPT ![w] = "idle"]
    /\ wPc' = [wPc EXCEPT ![w] = "recv"]
    /\ UNCHANGED <<cfgVars, lastFetch, arrived,
                   shutdown, chanVars, tsVars,
                   consecutiveNonValidResponse, proxy, userAgent, wgCount,
                   mainPc, rsVars, ssVars, nFail, nOk, redelivered, freshIssued,
                   payloads>>

\* <-inflight; continue
WReleaseFail(w) ==
    /\ Running /\ wPc[w] = "skip_release"
    /\ inflight > 0
    /\ inflight' = inflight - 1
    /\ postID' = [postID EXCEPT ![w] = NoId]
    /\ emitted' = [emitted EXCEPT ![w] = "idle"]
    /\ wPc' = [wPc EXCEPT ![w] = "recv"]
    /\ UNCHANGED <<cfgVars, lastFetch, arrived,
                   shutdown, tasks, tasksClosed, skipped, skippedClosed,
                   resultsClosed, inflightClosed, tsVars,
                   consecutiveNonValidResponse, proxy, userAgent, wgCount,
                   mainPc, rsVars, ssVars, nFail, nOk, redelivered, freshIssued,
                   payloads>>

\* <-inflight on the success path
WReleaseOk(w) ==
    /\ Running /\ wPc[w] = "release_ok"
    /\ inflight > 0
    /\ inflight' = inflight - 1
    /\ wPc' = [wPc EXCEPT ![w] = "result_send"]
    /\ UNCHANGED <<cfgVars, lastFetch, arrived,
                   shutdown, tasks, tasksClosed, skipped, skippedClosed,
                   resultsClosed, inflightClosed, tsVars, postID,
                   consecutiveNonValidResponse, proxy, userAgent, wgCount,
                   mainPc, rsVars, ssVars, histVars>>

\* Mutant of WSendResult: the success path also sends the offset on skipped.
WSendResultAndSkip(w) ==
    /\ Running /\ wPc[w] = "result_send"
    /\ rsPc = "recv" /\ ~resultsClosed
    /\ Len(skipped) < SkippedCap
    /\ skipped' = Append(skipped, postID[w])
    /\ body' = postID[w]
    /\ arrived' = Append(arrived, postID[w])
    /\ rsPc' = "got"
    /\ emitted' = [emitted EXCEPT ![w] = "idle"]
    /\ postID' = [postID EXCEPT ![w] = NoId]
    /\ wPc' = [wPc EXCEPT ![w] = "recv"]
    /\ UNCHANGED <<cfgVars, lastFetch,
                   shutdown, tasks, tasksClosed, skippedClosed,
                   resultsClosed, inflight, inflightClosed, tsVars,
                   consecutiveNonValidResponse, proxy, userAgent, wgCount,
                   mainPc, first, resultsFile, ssVars, nFail, nOk, redelivered,
                   freshIssued, payloads>>

\* results <- response, met by `for body := range results` of the sink: the
\* channel is unbuffered, so the send and the receive are one step.  The
\* body of the response is modelled by the offset it answers.
WSendResult(w) ==
    /\ Running /\ wPc[w] = "result_send"
    /\ rsPc = "recv" /\ ~resultsClosed
    /\ body' = postID[w]
    /\ arrived' = Append(arrived, postID[w])
    /\ rsPc' = "got"
    /\ emitted' = [emitted EXCEPT ![w] = "idle"]
    /\ postID' = [postID EXCEPT ![w] = NoId]
    /\ wPc' = [wPc EXCEPT ![w] = "recv"]
    /\ UNCHANGED <<cfgVars, lastFetch,
                   shutdown, chanVars, tsVars,
                   consecutiveNonValidResponse, proxy, userAgent, wgCount,
                   mainPc, first, resultsFile, ssVars, nFail, nOk, redelivered,
                   freshIssued, payloads>>

Worker(w) ==
    \/ WStart(w) \/ WRecv(w) \/ WDone(w) \/ WRequest(w)
    \/ WSkip(w) \/ WReleaseFail(w) \/ WReleaseOk(w) \/ WSendResult(w)

\* ----------------------------------------------------- writeResultsToFile
\* What f.Write puts in the Results file: the brackets, a comma, a body.
Tok(k, v) == [k |-> k, v |-> v]

\* os.Create(outputFile); f.Write("["); first := true
RSOpen ==
    /\ Running /\ rsPc = "start"
    /\ resultsFile' = Append(resultsFile, Tok("[", NoId))
    /\ first' = TRUE
    /\ rsPc' = "recv"
    /\ UNCHANGED <<cfgVars, lastFetch, arrived,
                   shutdown, chanVars, tsVars, workerVars, mainPc,
                   body, ssVars, histVars>>

\* if !first { f.Write(",") }
RSWriteComma ==
    /\ Running /\ rsPc = "got"
    /\ ~first
    /\ resultsFile' = Append(resultsFile, Tok(",", NoId))
    /\ rsPc' = "body"
    /\ UNCHANGED <<cfgVars, lastFetch, arrived,
                   shutdown, chanVars, tsVars, workerVars, mainPc,
                   body, first, ssVars, histVars>>

\* Mutant of RSWriteBody: first is never cleared.
RSWriteBodyKeepFirst ==
    /\ Running
    /\ \/ rsPc = "body"
       \/ rsPc = "got" /\ first
    /\ resultsFile' = Append(resultsFile, Tok("body", body))
    /\ body' = NoId
    /\ rsPc' = "recv"
    /\ UNCHANGED <<cfgVars, lastFetch, arrived,
                   shutdown, chanVars, tsVars, workerVars, mainPc,
                   first, ssVars, histVars>>

\* first = false; f.Write(body)
RSWriteBody ==
    /\ Running
    /\ \/ rsPc = "body"
       \/ rsPc = "got" /\ first
    /\ first' = FALSE
    /\ resultsFile' = Append(resultsFile, Tok("body", body))
    /\ body' = NoId
    /\ rsPc' = "recv"
    /\ UNCHANGED <<cfgVars, lastFetch, arrived,
                   shutdown, chanVars, tsVars, workerVars, mainPc,
                   ssVars, histVars>>

\* range results ends on the closed channel; f.Write("]")
RSClose ==
    /\ Running /\ rsPc = "recv"
    /\ resultsClosed
    /\ resultsFile' = Append(resultsFile, Tok("]", NoId))
    /\ rsPc' = "done"
    /\ UNCHANGED <<cfgVars, lastFetch, arrived,
                   shutdown, chanVars, tsVars, workerVars, mainPc,
                   body, first, ssVars, histVars>>

ResultsSink == RSOpen \/ RSWriteComma \/ RSWriteBody \/ RSClose

\* ----------------------------------------------------- writeSkippedToFile
\* os.Create(outputFile) on the first pass; for id := range skipped: the
\* next offset
SSRecv ==
    /\ Running /\ ssPc = "recv"
    /\ Len(skipped) > 0
    /\ id' = Head(skipped)
    /\ skipped' = Tail(skipped)
    /\ ssPc' = "write"
    /\ UNCHANGED <<cfgVars, lastFetch, arrived,
                   shutdown, tasks, tasksClosed, skippedClosed,
                   resultsClosed, inflight, inflightClosed, tsVars, workerVars,
                   mainPc, rsVars, skippedFile, histVars>>

\* f.WriteString(strconv.Itoa(int(id)) + "\n"): one line
SSWrite ==
    /\ Running /\ ssPc = "write"
    /\ skippedFile' = Append(skippedFile, id)
    /\ id' = NoId
    /\ ssPc' = "recv"
    /\ UNCHANGED <<cfgVars, lastFetch, arrived,
                   shutdown, chanVars, tsVars, workerVars, mainPc,
                   rsVars, histVars>>

\* range skipped ends on the closed and drained channel
SSDone ==
    /\ Running /\ ssPc = "recv"
    /\ Len(skipped) = 0 /\ skippedClosed
    /\ ssPc' = "done"
    /\ UNCHANGED <<cfgVars, lastFetch, arrived,
                   shutdown, chanVars, tsVars, workerVars, mainPc,
                   rsVars, id, skippedFile, histVars>>

SkippedSink == SSRecv \/ SSWrite \/ SSDone

\* ------------------------------------------------------------------ main
\* wg.Wait(); close(results)
MainCloseResults ==
    /\ mainPc = "wait"
    /\ wgCount = 0
    /\ resultsClosed' = TRUE
    /\ mainPc' = "close_skipped"
    /\ UNCHANGED <<cfgVars, lastFetch, arrived,
                   shutdown, tasks, tasksClosed, skipped, skippedClosed,
                   inflight, inflightClosed, tsVars, workerVars, rsVars, ssVars,
                   histVars>>

\* close(skipped)
MainCloseSkipped ==
    /\ mainPc = "close_skipped"
    /\ skippedClosed' = TRUE
    /\ mainPc' = "close_inflight"
    /\ UNCHANGED <<cfgVars, lastFetch, arrived,
                   shutdown, tasks, tasksClosed, skipped, resultsClosed,
                   inflight, inflightClosed, tsVars, workerVars, rsVars, ssVars,
                   histVars>>

\* close(inflight); log.Println("Scraping completed"); main returns and the
\* process ends, whatever the other goroutines were doing.
MainReturn ==
    /\ mainPc = "close_inflight"
    /\ inflightClosed' = TRUE
    /\ mainPc' = "exited"
    /\ UNCHANGED <<cfgVars, lastFetch, arrived,
                   shutdown, tasks, tasksClosed, skipped, skippedClosed,
                   resultsClosed, inflight, tsVars, workerVars, rsVars, ssVars,
                   histVars>>

Main == MainCloseResults \/ MainCloseSkipped \/ MainReturn

\* --------------------------------------------------------- specification
Next ==
    \/ TaskSource
    \/ Signal
    \/ \E w \in Workers : Worker(w)
    \/ ResultsSink
    \/ SkippedSink
    \/ Main

Spec == Init /\ [][Next]_vars

\* The Go scheduler runs every goroutine that can take a step, and every
\* fetch returns (the client has a 30 s timeout).  The signal is the
\* environment's: nothing obliges it to arrive.
Fairness ==
    /\ WF_vars(TaskSource)
    /\ \A w \in Workers : WF_vars(Worker(w))
    /\ WF_vars(ResultsSink)
    /\ WF_vars(SkippedSink)
    /\ WF_vars(Main)

FairSpec == Spec /\ Fairness

\* The same runs, keeping for each failed fetch what it met and whether the
\* Worker rerolled on it.
InitFetchLog == InitWith({"p1"}, TRUE)

SpecFetchLog == InitFetchLog /\ [][Next]_vars

\* A run with or without --proxies.
InitAnyPool == \E pool \in ProxyPools : InitWith(pool, FALSE)

NextAnyPool == Next \/ \E w \in Workers : WStartPanic(w)

SpecAnyPool == InitAnyPool /\ [][NextAnyPool]_vars

\* ------------------------------------------------------------ properties
Range(s) == {s[k] : k \in 1..Len(s)}

\* Offsets the Skipped sink has received from the skipped channel.
SinkGot == Len(skippedFile) + (IF ssPc = "write" THEN 1 ELSE 0)

\* Offsets issued by the Task Source whose attempt has not yet released its
\* admission slot: still queued in tasks, or held by a Worker.
Outstanding ==
    Len(tasks) + Cardinality({w \in Workers :
        wPc[w] \in {"request", "skip_send", "skip_release", "release_ok"}})

\* C1: every FailureRecord reaches both consumers: once the skipped channel
\* holds nothing, the Skipped sink has received every failed offset and the
\* Task Source has received every failed offset for re-delivery.
C1_BothConsumers ==
    Len(skipped) = 0 => (SinkGot = nFail /\ redelivered = nFail)

\* C2: at most WORKERS offsets are outstanding in every reachable state.
C2_OutstandingBounded == Outstanding <= WORKERS

\* The budget is used up, with an offset queued and another being fetched.
C2_Witness ==
    /\ Outstanding = WORKERS
    /\ Len(tasks) > 0
    /\ \E w \in Workers : wPc[w] = "request"

\* C3: once the shutdown flag is true, the Task Source eventually closes
\* the task stream and every Worker eventually exits.
C3_ShutdownDrains ==
    shutdown ~> (tasksClosed /\ \A w \in Workers : wPc[w] = "done")

\* C4: once the shutdown flag is true the fresh-offset counter never
\* advances and no further fresh offset is issued.
C4_NoFreshAfterShutdown ==
    [][shutdown => (i' = i /\ freshIssued' = freshIssued)]_vars

\* The Results file is the whole array, one element for each successful fetch.
ResultsComplete ==
    /\ Len(resultsFile) >= 2
    /\ resultsFile[1].k = "["
    /\ resultsFile[Len(resultsFile)].k = "]"
    /\ Cardinality({n \in 1..Len(resultsFile) : resultsFile[n].k = "body"}) = nOk

\* C5: when main has returned after all Workers exited, the Results file is
\* a complete array with one element for every successful fetch.
C5_ResultsCompleteAtExit == mainPc = "exited" => ResultsComplete

\* C6: when main has returned, the Skipped file has one line for every
\* FailureRecord emitted.
C6_SkippedLinesAtExit == mainPc = "exited" => Len(skippedFile) = nFail

\* C7: a Task Source that decides with a failed offset queued takes the
\* re-delivery branch and leaves the counter alone; and it issues a fresh
\* offset only when every failed offset queued so far has been re-issued.
C7_RetryBeforeFresh ==
    [][/\ (tsPc = "decide" /\ tsPc' # "decide" /\ Len(skipped) > 0)
          => (i' = i /\ tsPc' = "recv")
       /\ (i' # i) => redelivered = nFail]_vars

\* C8: every attempt of a Worker ends having emitted exactly one of a
\* Payload (handed to the Results sink) and a FailureRecord for its offset
\* (sent on skipped), whatever the fetch met.
C8_ExactlyOneEmission ==
    [][\A w \in Workers :
         /\ (wPc[w] \in {"request", "skip_send", "skip_release", "release_ok",
                         "result_send"} /\ wPc'[w] \notin
              {"request", "skip_send", "skip_release", "release_ok", "result_send"})
            => \/ /\ emitted[w] = "failure"
                  /\ <<rsPc, body>>' = <<rsPc, body>>
               \/ /\ emitted[w] = "none"
                  /\ skipped' = skipped
                  /\ rsPc' = "got" /\ body' = postID[w]
         /\ (emitted[w] # "failure" /\ emitted'[w] = "failure")
            => skipped' = Append(skipped, postID[w])
         /\ emitted'[w] # "both"]_vars

\* Both kinds of attempt have ended: a payload has reached the Results sink
\* and a FailureRecord has been sent, and a Worker is back waiting.
C8_Witness ==
    /\ nFail > 0
    /\ Len(resultsFile) >= 2
    /\ \E w \in Workers : wPc[w] = "recv" /\ emitted[w] = "idle"

\* C9: no offset produces more than one Payload, and an offset whose attempt
\* has succeeded is not issued again (neither about to be put on tasks, nor
\* queued there, nor being fetched).
C9_NoDuplicatePayload ==
    \A o \in Offsets :
        /\ payloads[o] <= 1
        /\ payloads[o] >= 1 =>
             /\ o \notin Range(tasks)
             /\ ~(tsPc = "send" /\ nextId = o)
             /\ \A w \in Workers : ~(wPc[w] = "request" /\ postID[w] = o)

\* A failed offset was re-delivered and every fresh offset issued, the
\* failed one included, has produced its Payload.
C9_Witness ==
    /\ redelivered > 0
    /\ redelivered = nFail
    /\ Len(freshIssued) >= 2
    /\ \A k \in 1..Len(freshIssued) : payloads[freshIssued[k]] = 1

\* C10: the k-th fresh offset issued is base + (k-1) * STEP_SIZE.
C10_FreshSequence ==
    \A k \in 1..Len(freshIssued) : freshIssued[k] = startNum + (k - 1) * STEP_SIZE

\* A fetch of Worker w returns an error in this step.
FetchFails(w) == wPc[w] = "request" /\ wPc'[w] = "skip_send"

\* C11: on a rate-limited response the Worker increments its counter; when
\* the counter reaches 2 it rerolls and the counter is 0 afterwards,
\* otherwise it keeps its Identity.
C11_RateLimitedPolicy ==
    [][\A w \in Workers :
         (FetchFails(w) /\ lastFetch'[w].outcome = "s429") =>
            IF consecutiveNonValidResponse[w] + 1 = 2
            THEN /\ lastFetch'[w].rerolled
                 /\ consecutiveNonValidResponse'[w] = 0
            ELSE /\ ~lastFetch'[w].rerolled
                 /\ consecutiveNonValidResponse'[w] =
                       consecutiveNonValidResponse[w] + 1]_vars

\* C12: on an access-forbidden status the Worker rerolls on that very
\* failure, whatever the counter, and the counter is 0 afterwards.
C12_HardBlockRerolls ==
    [][\A w \in Workers :
         (FetchFails(w) /\ lastFetch'[w].outcome = "s403") =>
            /\ lastFetch'[w].rerolled
            /\ consecutiveNonValidResponse'[w] = 0]_vars

\* C13: on an invalid body or another non-success status the Worker keeps
\* its Identity and the counter is 0 afterwards.
C13_OtherFailureKeepsIdentity ==
    [][\A w \in Workers :
         (FetchFails(w) /\ lastFetch'[w].outcome \in {"invalid", "s500"}) =>
            /\ ~lastFetch'[w].rerolled
            /\ consecutiveNonValidResponse'[w] = 0]_vars

\* C14: on a transport error the Worker rerolls and the counter is 0
\* afterwards, whatever it was before.
C14_TransportRerollsAndResets ==
    [][\A w \in Workers :
         (FetchFails(w) /\ lastFetch'[w].outcome = "transport") =>
            /\ lastFetch'[w].rerolled
            /\ consecutiveNonValidResponse'[w] = 0]_vars

\* C15: a Worker leaves its loop only from the wait for the next offset,
\* with the task stream closed and drained; no fetch outcome ends it.
C15_ExitOnlyOnClosedStream ==
    [][\A w \in Workers :
         (wPc[w] # "done" /\ wPc'[w] = "done") =>
            (wPc[w] = "recv" /\ tasksClosed /\ Len(tasks) = 0)]_vars

\* A Worker has exited after fetches have failed.
C15_Witness ==
    /\ \E w \in Workers : wPc[w] = "done"
    /\ nFail = MaxFail

\* C16: with the shutdown flag unset the Task Source is never blocked for
\* good holding a slot: it is never waiting on an empty skipped channel
\* while nothing is queued and every Worker is idle.
C16_TaskSourceNeverStuck ==
    ~ /\ ~shutdown
      /\ tsPc = "recv" /\ Len(skipped) = 0
      /\ Len(tasks) = 0
      /\ \A w \in Workers : wPc[w] = "recv"

\* C17: identity selection never fails, whatever the pools: with no proxy
\* configured the Workers still start and the process does not end on it.
C17_IdentityNeverFails == mainPc # "crashed"

\* The elements of the array for the bodies ps: one comma between two
\* consecutive bodies.
RECURSIVE Elements(_)
Elements(ps) ==
    IF Len(ps) = 0 THEN <<>>
    ELSE IF Len(ps) = 1 THEN <<Tok("body", ps[1])>>
    ELSE <<Tok("body", ps[1]), Tok(",", NoId)>> \o Elements(Tail(ps))

ArrayOf(ps) == <<Tok("[", NoId)>> \o Elements(ps) \o <<Tok("]", NoId)>>

\* C18: when the Results sink has run to completion the file is the array
\* of the bodies it received, in arrival order, with one comma between two
\* consecutive elements ('[]' when it received none).
C18_ResultsFileFormat == rsPc = "done" => resultsFile = ArrayOf(arrived)

\* The sink has completed after receiving two bodies.
C18_Witness == rsPc = "done" /\ Len(arrived) >= 2

\* The Task Source has acquired a slot and not yet put its offset on tasks.
TSHolds == IF tsPc \in {"decide", "recv", "send"} THEN 1 ELSE 0

\* C19: the held slots are the offsets queued on tasks, the attempts not
\* yet released and the slot the Task Source holds; so a release finds a
\* token, and no slot is held once every Worker has exited.
C19_SlotAccounting ==
    /\ inflight = Outstanding + TSHolds
    /\ \A w \in Workers : wPc[w] \in {"skip_release", "release_ok"} => inflight > 0
    /\ (\A w \in Workers : wPc[w] = "done") => inflight = 0

\* Every slot is held: one by the Task Source about to send, one by a
\* Worker about to release.
C19_Witness ==
    /\ inflight = WORKERS
    /\ tsPc = "send"
    /\ \E w \in Workers : wPc[w] = "skip_release"

\* The places of offset o: the task queue, the re-delivery queue and the
\* Workers whose position is in pcs.
Occurrences(o, pcs) ==
    Cardinality({k \in 1..Len(tasks) : tasks[k] = o})
    + Cardinality({k \in 1..Len(skipped) : skipped[k] = o})
    + Cardinality({w \in Workers : wPc[w] \in pcs /\ postID[w] = o})

\* C20 as stated: an attempt lasts from the receipt of the offset to the
\* release of its slot, and no offset is in two places.
C20_NoOffsetTwiceUntilRelease ==
    \A o \in Offsets :
        Occurrences(o, {"request", "skip_send", "skip_release", "release_ok",
                        "result_send"}) <= 1

\* C20: no offset is in two places at once, an attempt lasting until the
\* Worker has handed the offset to the re-delivery queue; so no two Workers
\* fetch the same offset at the same time.
C20_NoOffsetTwice ==
    /\ \A o \in Offsets :
          Occurrences(o, {"request", "skip_send", "release_ok", "result_send"}) <= 1
    /\ \A v, w \in Workers :
          (v # w /\ wPc[v] = "request" /\ wPc[w] = "request") => postID[v] # postID[w]

\* A failed offset has been re-delivered and is being fetched again while
\* another Worker fetches another offset.
C20_Witness ==
    /\ redelivered > 0
    /\ \A w \in Workers : wPc[w] = "request"

====
